---- MODULE Spec2Model ----
(***************************************************************************)
(* hetionet-analysis: the cross product of bioprocess, gene and metapath   *)
(* identifiers (hetionet_utils/combination.py), its chunking into Arrow    *)
(* tables, and the notebook gather_subset_data_metapath_BPpGdAdG.py that   *)
(* queries Hetionet for the triples of a chunk with joblib threads and     *)
(* adds the concatenated result to a LanceDB table.                        *)
(*                                                                         *)
(* Three programs run over the same state:                                 *)
(*   SpecComb   list(generate_combinations_...(...)), as in                *)
(*              tests/test_combinations.py                                 *)
(*   SpecChunk  list(process_in_chunks_...(sample_generator(data), s))     *)
(*   Spec       the notebook, top to bottom                                *)
(***************************************************************************)
EXTENDS Integers, Sequences, FiniteSets

VARIABLES
    table_bioprocesses,  \* the 'id' column of BP.csv, as a python list
    table_genes,         \* the 'id' column of Gene.csv, as a python list
    table_metapaths,     \* the 'metapath' column, as a python list
    data,                \* every item the generator was created to yield
    generator,           \* the items the generator has not yielded yet
    chunk_size,          \* process_in_chunks' chunk_size argument
    enum_next,           \* the count enumerate() hands out next
    chunk,               \* the chunker's list of pending combo tuples
    cpc,                 \* where the chunker (a generator function) is suspended
    emitted,             \* the Arrow tables the chunker has yielded, in order
    pc,                  \* the position of the main flow
    error,               \* the exception that ended the run, or "none"
    sample_columns,      \* the columns of the notebook's sample DataFrame
    schema,              \* the column names of the LanceDB table
    table,               \* the rows of the LanceDB table
    tasks,               \* the delayed calls of the running Parallel call
    completion_order,    \* the task indexes in the order they finished
    results,             \* the list Parallel returned
    count,               \* the notebook's chunk counter
    appends,             \* the row count of each table.add that succeeded
    dispatched,          \* the number of chunks handed to Parallel
    num_rows             \* table.count_rows() at the end, -1 before

vars == <<table_bioprocesses, table_genes, table_metapaths, data, generator,
          chunk_size, enum_next, chunk, cpc, emitted, pc, error,
          sample_columns, schema, table, tasks, completion_order, results,
          count, appends, dispatched, num_rows>>

----------------------------------------------------------------------------
(* Bounds of the model *)

MaxSources == 2
MaxTargets == 2
MaxMetapaths == 2
MaxInput == 5
MaxChunk == 4
NegChunk == 2
MaxRows == 2

(* Program constants *)

n_jobs == 3
notebook_chunk_size == 3

----------------------------------------------------------------------------
(* Python values: a str, an int or None *)

PyStr(s) == [kind |-> "str", s |-> s, n |-> 0]
PyInt(n) == [kind |-> "int", s |-> "", n |-> n]
PyNone == [kind |-> "none", s |-> "", n |-> 0]

Digits == <<"0", "1", "2", "3", "4", "5", "6", "7", "8", "9">>

\* str(x), for the values of the model (ints are 0..9)
Str(x) ==
    CASE x.kind = "str" -> x
      [] x.kind = "int" -> PyStr(Digits[x.n + 1])
      [] OTHER -> PyStr("None")

\* int(s) succeeds on a decimal string (and on an int)
IntParses(x) ==
    \/ x.kind = "int"
    \/ x.kind = "str" /\ \E d \in 1..Len(Digits) : Digits[d] = x.s

IntOf(x) ==
    IF x.kind = "int" THEN x
    ELSE PyInt((CHOOSE d \in 1..Len(Digits) : Digits[d] = x.s) - 1)

\* a % b with python's sign rule (the result has the sign of b); b # 0
PyMod(a, b) == IF b > 0 THEN a % b ELSE -((-a) % (-b))

SeqsUpTo(S, n) == UNION {[1..len -> S] : len \in 0..n}

\* the lists over S that hold no value twice
DistinctSeqs(S) ==
    {q \in SeqsUpTo(S, Cardinality(S)) :
        \A x, y \in 1..Len(q) : x # y => q[x] # q[y]}

BioprocessIds == {PyStr("GO:0000002"), PyStr("GO:0000003")}
GeneIds == {PyInt(1), PyInt(2)}
MetapathNames == {PyStr("BPpGdAdG"), PyStr("BPpGuAuG")}

----------------------------------------------------------------------------
(* itertools.product over the three lists: the bioprocess loop is the     *)
(* outermost, the metapath loop the innermost                              *)

MetapathLoop(b, g, M) == [c \in 1..Len(M) |-> <<b, g, M[c]>>]

RECURSIVE GeneLoop(_, _, _, _)
GeneLoop(b, G, M, j) ==
    IF j > Len(G) THEN <<>>
    ELSE MetapathLoop(b, G[j], M) \o GeneLoop(b, G, M, j + 1)

RECURSIVE BioprocessLoop(_, _, _, _)
BioprocessLoop(B, G, M, a) ==
    IF a > Len(B) THEN <<>>
    ELSE GeneLoop(B[a], G, M, 1) \o BioprocessLoop(B, G, M, a + 1)

\* the same loops with the gene loop innermost
GeneInnerLoop(b, m, G) == [j \in 1..Len(G) |-> <<b, G[j], m>>]

RECURSIVE MetapathOuterLoop(_, _, _, _)
MetapathOuterLoop(b, G, M, c) ==
    IF c > Len(M) THEN <<>>
    ELSE GeneInnerLoop(b, M[c], G) \o MetapathOuterLoop(b, G, M, c + 1)

RECURSIVE BioprocessLoopSwapped(_, _, _, _)
BioprocessLoopSwapped(B, G, M, a) ==
    IF a > Len(B) THEN <<>>
    ELSE MetapathOuterLoop(B[a], G, M, 1) \o BioprocessLoopSwapped(B, G, M, a + 1)

generate_combinations_swapped(B, G, M) == BioprocessLoopSwapped(B, G, M, 1)

\* everything the generator yields, in order
generate_combinations_for_bioprocs_genes_and_metapaths(B, G, M) ==
    BioprocessLoop(B, G, M, 1)

----------------------------------------------------------------------------
(* State shared by the three programs *)

NoFrame == [columns |-> <<>>, rows |-> <<>>]

Idle ==
    /\ data = <<>>
    /\ generator = <<>>
    /\ chunk_size = notebook_chunk_size
    /\ enum_next = 0
    /\ chunk = <<>>
    /\ cpc = "unborn"
    /\ emitted = <<>>
    /\ error = "none"
    /\ sample_columns = <<>>
    /\ schema = <<>>
    /\ table = <<>>
    /\ tasks = <<>>
    /\ completion_order = <<>>
    /\ results = <<>>
    /\ count = 0
    /\ appends = <<>>
    /\ dispatched = 0
    /\ num_rows = -1

----------------------------------------------------------------------------
(* SpecComb: result = list(generate_combinations_...(tables))             *)

InitComb ==
    /\ table_bioprocesses \in SeqsUpTo(BioprocessIds, MaxSources)
    /\ table_genes \in SeqsUpTo(GeneIds, MaxTargets)
    /\ table_metapaths \in SeqsUpTo(MetapathNames, MaxMetapaths)
    /\ pc = "test_combos"
    /\ Idle

ListCombinations ==
    /\ pc = "test_combos"
    /\ data' = generate_combinations_for_bioprocs_genes_and_metapaths(
                   table_bioprocesses, table_genes, table_metapaths)
    /\ pc' = "combos_listed"
    /\ UNCHANGED <<table_bioprocesses, table_genes, table_metapaths, generator,
                   chunk_size, enum_next, chunk, cpc, emitted, error,
                   sample_columns, schema, table, tasks, completion_order,
                   results, count, appends, dispatched, num_rows>>

NextComb == ListCombinations

SpecComb == InitComb /\ [][NextComb]_vars

----------------------------------------------------------------------------
(* process_in_chunks_for_bioprocs_genes_and_metapaths, a generator        *)
(* function: it runs only while its caller asks for the next table, and   *)
(* is suspended at its yield statements in between                        *)

\* tuple(str(x) if x is not None else "" for x in combo)
ComboTuple(combo) ==
    [k \in 1..Len(combo) |->
        IF combo[k].kind # "none" THEN Str(combo[k]) ELSE PyStr("")]

\* pa.table({"source_id": [...], "target_id": [...], "metapath": [...]})
PaTable(rows) ==
    [source_id |-> [r \in 1..Len(rows) |-> rows[r][1]],
     target_id |-> [r \in 1..Len(rows) |-> rows[r][2]],
     metapath |-> [r \in 1..Len(rows) |-> rows[r][3]]]

NumRows(t) == Len(t.source_id)

\* the rows of an Arrow table, read back by zipping its three columns
Rows(t) ==
    [r \in 1..NumRows(t) |-> <<t.source_id[r], t.target_id[r], t.metapath[r]>>]

\* the test with the bare index i in place of i + 1
ChunkIsFullOffByOne(taken, size) == PyMod(taken - 1, size) = 0

\* (i + 1) % chunk_size == 0, where i + 1 is the number of items taken so far
ChunkIsFull(taken, size) == PyMod(taken, size) = 0

\* the tail yielded unconditionally
HasRemainderAlways(c) == TRUE

\* `if chunk:` a tail is yielded only when it holds something
HasRemainder(c) == c # <<>>

\* the list kept after the yield
ResetChunkForgotten(c) == c

\* `chunk = []` after a full chunk was yielded
ResetChunk(c) == <<>>

\* somebody is asking the chunker for its next table
Pulling == pc \in {"list", "for_loop"}

\* the table goes to list() or to the body of the notebook's for loop
Receiver == IF pc = "for_loop" THEN "for_body" ELSE pc

\* for i, combo in enumerate(generator): one item is taken and appended
ChunkerAppend ==
    /\ Pulling
    /\ cpc = "for"
    /\ generator # <<>>
    /\ chunk' = Append(chunk, ComboTuple(Head(generator)))
    /\ generator' = Tail(generator)
    /\ enum_next' = enum_next + 1
    /\ cpc' = "test"
    /\ UNCHANGED <<table_bioprocesses, table_genes, table_metapaths, data,
                   chunk_size, emitted, pc, error, sample_columns, schema, table,
                   tasks, completion_order, results, count, appends, dispatched,
                   num_rows>>

\* if (i + 1) % chunk_size == 0: yield pa.table(...)
ChunkerTest ==
    /\ Pulling
    /\ cpc = "test"
    /\ IF chunk_size = 0
       THEN /\ error' = "ZeroDivisionError"
            /\ cpc' = "raised"
            /\ pc' = "crashed"
            /\ UNCHANGED emitted
       ELSE IF ChunkIsFull(enum_next, chunk_size)
       THEN /\ emitted' = Append(emitted, PaTable(chunk))
            /\ cpc' = "yield_full"
            /\ pc' = Receiver
            /\ UNCHANGED error
       ELSE /\ cpc' = "for"
            /\ UNCHANGED <<emitted, pc, error>>
    /\ UNCHANGED <<table_bioprocesses, table_genes, table_metapaths, data,
                   generator, chunk_size, enum_next, chunk, sample_columns,
                   schema, table, tasks, completion_order, results, count,
                   appends, dispatched, num_rows>>

\* list() asks again after a full chunk: the chunker resumes with chunk = []
ChunkerResume ==
    /\ pc = "list"
    /\ cpc = "yield_full"
    /\ chunk' = ResetChunk(chunk)
    /\ cpc' = "for"
    /\ UNCHANGED <<table_bioprocesses, table_genes, table_metapaths, data,
                   generator, chunk_size, enum_next, emitted, pc, error,
                   sample_columns, schema, table, tasks, completion_order,
                   results, count, appends, dispatched, num_rows>>

\* the input is exhausted: the tail is yielded, or the chunker returns
ChunkerExhaust ==
    /\ Pulling
    /\ cpc = "for"
    /\ generator = <<>>
    /\ IF HasRemainder(chunk)
       THEN /\ emitted' = Append(emitted, PaTable(chunk))
            /\ cpc' = "yield_last"
            /\ pc' = Receiver
       ELSE /\ cpc' = "returned"
            /\ pc' = IF pc = "list" THEN "listed" ELSE "report"
            /\ UNCHANGED emitted
    /\ UNCHANGED <<table_bioprocesses, table_genes, table_metapaths, data,
                   generator, chunk_size, enum_next, chunk, error,
                   sample_columns, schema, table, tasks, completion_order,
                   results, count, appends, dispatched, num_rows>>

\* list() asks again after the tail: the chunker returns
ChunkerReturn ==
    /\ pc = "list"
    /\ cpc = "yield_last"
    /\ cpc' = "returned"
    /\ pc' = "listed"
    /\ UNCHANGED <<table_bioprocesses, table_genes, table_metapaths, data,
                   generator, chunk_size, enum_next, chunk, emitted, error,
                   sample_columns, schema, table, tasks, completion_order,
                   results, count, appends, dispatched, num_rows>>

----------------------------------------------------------------------------
(* SpecChunk: result_chunks = list(process_in_chunks_...(                 *)
(*                sample_generator(data), chunk_size=chunk_size))         *)

TestTriples ==
    {<<PyStr("bio1"), PyStr("gene1"), PyStr("meta1")>>,
     <<PyStr("GO:0000002"), PyInt(1), PyStr("BPpGdAdG")>>,
     <<PyStr("bio2"), PyNone, PyStr("meta2")>>}

ChunkSizes == (0 - NegChunk)..MaxChunk

InitChunk ==
    /\ table_bioprocesses = <<>>
    /\ table_genes = <<>>
    /\ table_metapaths = <<>>
    /\ data \in SeqsUpTo(TestTriples, MaxInput)
    /\ generator = data
    /\ chunk_size \in ChunkSizes
    /\ enum_next = 0
    /\ chunk = <<>>
    /\ cpc = "for"
    /\ emitted = <<>>
    /\ pc = "list"
    /\ error = "none"
    /\ sample_columns = <<>>
    /\ schema = <<>>
    /\ table = <<>>
    /\ tasks = <<>>
    /\ completion_order = <<>>
    /\ results = <<>>
    /\ count = 0
    /\ appends = <<>>
    /\ dispatched = 0
    /\ num_rows = -1

NextChunk ==
    \/ ChunkerAppend
    \/ ChunkerTest
    \/ ChunkerResume
    \/ ChunkerExhaust
    \/ ChunkerReturn

SpecChunk == InitChunk /\ [][NextChunk]_vars

----------------------------------------------------------------------------
(* HetionetNeo4j.get_metapath_data                                        *)

\* the fields of a row of the API's "paths" array
ResponseColumns ==
    <<"metapath", "node_ids", "rel_ids", "PDP", "percent_of_DWPC", "score",
      "PC", "DWPC">>

\* columns=["source_id", "target_id", "PDP", "DWPC"]
Columns == <<"source_id", "target_id", "PDP", "DWPC">>

Range(f) == {f[x] : x \in DOMAIN f}

\* What Neo4j and the search API answer to one call: no node for the source
\* or target identifier, a failed request, or a "paths" array of n rows.
Answers ==
    {[kind |-> k, n |-> 0] : k \in {"no_source", "no_target", "request_error"}}
        \cup {[kind |-> "paths", n |-> r] : r \in 0..MaxRows}

\* get_id_from_identifer: run_query(...)[0] raises IndexError on an empty
\* result; source and target are resolved while the url is built, before
\* requests.get
Resolves(answer) == answer.kind \notin {"no_source", "no_target"}

\* the rows stamped with the target in both columns
StampedRowsTargetTwice(source_id, target_id, n) ==
    [p \in 1..n |-> [source_id |-> target_id, target_id |-> target_id, path |-> p]]

\* df_result["source_id"] = source_id; df_result["target_id"] = target_id
StampedRows(source_id, target_id, n) ==
    [p \in 1..n |-> [source_id |-> source_id, target_id |-> target_id, path |-> p]]

\* the columns of df_result before the projection: an empty "paths" array
\* makes a DataFrame with no response column
FrameColumns(n) ==
    (IF n > 0 THEN ResponseColumns ELSE <<>>) \o <<"source_id", "target_id">>

\* the request sent before the identifiers are looked up
get_metapath_data_request_first(source_id, target_id, metapath, columns, answer) ==
    IF ~Resolves(answer)
    THEN [raised |-> "IndexError", frame |-> NoFrame, requested |-> TRUE]
    ELSE IF answer.kind = "request_error"
    THEN [raised |-> "RequestException", frame |-> NoFrame, requested |-> TRUE]
    ELSE IF ~(Range(columns) \subseteq Range(FrameColumns(answer.n)))
    THEN [raised |-> "KeyError", frame |-> NoFrame, requested |-> TRUE]
    ELSE [raised |-> "none",
          frame |-> [columns |-> columns,
                     rows |-> StampedRows(source_id, target_id, answer.n)],
          requested |-> TRUE]

\* the call's outcome: the exception it raises or "none", the DataFrame it
\* returns, and whether requests.get was called
get_metapath_data(source_id, target_id, metapath, columns, answer) ==
    IF ~Resolves(answer)
    THEN [raised |-> "IndexError", frame |-> NoFrame, requested |-> FALSE]
    ELSE IF answer.kind = "request_error"
    THEN [raised |-> "RequestException", frame |-> NoFrame, requested |-> TRUE]
    ELSE IF ~(Range(columns) \subseteq Range(FrameColumns(answer.n)))
    THEN [raised |-> "KeyError", frame |-> NoFrame, requested |-> TRUE]
    ELSE [raised |-> "none",
          frame |-> [columns |-> columns,
                     rows |-> StampedRows(source_id, target_id, answer.n)],
          requested |-> TRUE]

----------------------------------------------------------------------------
(* The notebook gather_subset_data_metapath_BPpGdAdG.py                   *)

\* rows a previous run left in the table of the same name
StaleRow == [source_id |-> PyStr("stale"), target_id |-> PyStr("stale"), path |-> 0]

\* the chunk sizes of the model's runs: the notebook's own, one chunk per
\* triple, and one more triple than there are threads
NotebookChunkSizes == {1, notebook_chunk_size, n_jobs + 1}

Init ==
    \* the id columns of BP.csv and Gene.csv name each node once
    /\ table_bioprocesses \in DistinctSeqs(BioprocessIds)
    /\ table_genes \in DistinctSeqs(GeneIds)
    \* df_metapaths[df_metapaths["metapath"] == "BPpGdAdG"]
    /\ table_metapaths \in DistinctSeqs({PyStr("BPpGdAdG")})
    /\ data = <<>>
    /\ generator = <<>>
    /\ chunk_size \in NotebookChunkSizes
    /\ enum_next = 0
    /\ chunk = <<>>
    /\ cpc = "unborn"
    /\ emitted = <<>>
    /\ pc = "sample"
    /\ error = "none"
    /\ sample_columns = <<>>
    /\ \/ table = <<>> /\ schema = <<>>
       \/ table = <<StaleRow>> /\ schema = Columns
    /\ tasks = <<>>
    /\ completion_order = <<>>
    /\ results = <<>>
    /\ count = 0
    /\ appends = <<>>
    /\ dispatched = 0
    /\ num_rows = -1

\* sample_result = hetiocli.get_metapath_data(source_id=str(bp[0][0]),
\*     target_id=int(str(genes[0][0])), metapath=str(metapaths[0][0]), ...)
SampleQuery(answer) ==
    /\ pc = "sample"
    /\ IF table_bioprocesses = <<>> \/ table_genes = <<>> \/ table_metapaths = <<>>
       THEN /\ error' = "IndexError"
            /\ pc' = "crashed"
            /\ UNCHANGED sample_columns
       ELSE IF ~IntParses(Str(table_genes[1]))
       THEN /\ error' = "ValueError"
            /\ pc' = "crashed"
            /\ UNCHANGED sample_columns
       ELSE LET r == get_metapath_data(Str(table_bioprocesses[1]),
                                       IntOf(Str(table_genes[1])),
                                       Str(table_metapaths[1]), Columns, answer)
            IN  IF r.raised # "none"
                THEN /\ error' = r.raised
                     /\ pc' = "crashed"
                     /\ UNCHANGED sample_columns
                ELSE /\ sample_columns' = r.frame.columns
                     /\ pc' = "create"
                     /\ UNCHANGED error
    /\ UNCHANGED <<table_bioprocesses, table_genes, table_metapaths, data,
                   generator, chunk_size, enum_next, chunk, cpc, emitted,
                   schema, table, tasks, completion_order, results, count,
                   appends, dispatched, num_rows>>

\* a table of the same name kept as it is
CreateTableExistOk(previous) == previous

\* db.create_table(..., mode="overwrite"): the table starts empty
CreateTableOverwrite(previous) == <<>>

\* db.create_table(table_name, schema=..., mode="overwrite"); db.open_table
CreateTable ==
    /\ pc = "create"
    /\ table' = CreateTableOverwrite(table)
    /\ schema' = sample_columns
    /\ pc' = "generate"
    /\ UNCHANGED <<table_bioprocesses, table_genes, table_metapaths, data,
                   generator, chunk_size, enum_next, chunk, cpc, emitted, error,
                   sample_columns, tasks, completion_order, results, count,
                   appends, dispatched, num_rows>>

\* generator = generate_combinations_...(...); count = 1; the for statement
\* creates the chunker
Generate ==
    /\ pc = "generate"
    /\ generator' = generate_combinations_for_bioprocs_genes_and_metapaths(
                        table_bioprocesses, table_genes, table_metapaths)
    /\ data' = generator'
    /\ count' = 1
    /\ cpc' = "for"
    /\ pc' = "for_loop"
    /\ UNCHANGED <<table_bioprocesses, table_genes, table_metapaths, chunk_size,
                   enum_next, chunk, emitted, error, sample_columns, schema,
                   table, tasks, completion_order, results, appends, dispatched,
                   num_rows>>

\* the delayed calls of a chunk: zip of the three columns, all queued
Delayed(chunk_table) ==
    [j \in 1..NumRows(chunk_table) |->
        [source_id |-> chunk_table.source_id[j],
         target_id |-> chunk_table.target_id[j],
         metapath |-> chunk_table.metapath[j],
         st |-> "queued",
         raised |-> "none",
         frame |-> NoFrame,
         requested |-> FALSE]]

\* the loop body starts: Parallel(n_jobs=3, backend="threading")(...)
Dispatch ==
    /\ pc = "for_body"
    /\ tasks' = Delayed(emitted[Len(emitted)])
    /\ completion_order' = <<>>
    /\ dispatched' = dispatched + 1
    /\ pc' = "parallel"
    /\ UNCHANGED <<table_bioprocesses, table_genes, table_metapaths, data,
                   generator, chunk_size, enum_next, chunk, cpc, emitted, error,
                   sample_columns, schema, table, results, count, appends,
                   num_rows>>

\* the calls that hold a thread of the pool: running, or blocked for good in
\* a request that is never answered
InFlight == {j \in 1..Len(tasks) : tasks[j].st \in {"running", "hung"}}

\* a thread per task, however many
WorkerFreeUnbounded(running) == TRUE

\* a thread of the pool of n_jobs is free
WorkerFree(running) == running < n_jobs

\* a free thread takes the next queued call, in the order of the chunk
WorkerStart(j) ==
    /\ pc = "parallel"
    /\ j \in 1..Len(tasks)
    /\ tasks[j].st = "queued"
    /\ \A e \in 1..(j - 1) : tasks[e].st # "queued"
    /\ WorkerFree(Cardinality(InFlight))
    /\ tasks' = [tasks EXCEPT ![j].st = "running"]
    /\ UNCHANGED <<table_bioprocesses, table_genes, table_metapaths, data,
                   generator, chunk_size, enum_next, chunk, cpc, emitted, pc,
                   error, sample_columns, schema, table, completion_order,
                   results, count, appends, dispatched, num_rows>>

RECURSIVE ConcatFrameRows(_)
ConcatFrameRows(frames) ==
    IF frames = <<>> THEN <<>>
    ELSE Head(frames).rows \o ConcatFrameRows(Tail(frames))

\* the DataFrames gathered so far added before the run ends
TableAfterRaiseSalvaged(rows, t) ==
    rows \o ConcatFrameRows([j \in 1..Len(t) |-> t[j].frame])

\* the exception of a call propagates out of Parallel and ends the run:
\* nothing catches it, the table is left as it is
TableAfterRaise(rows, t) == rows

Outcome(j, answer) ==
    get_metapath_data(tasks[j].source_id, tasks[j].target_id,
                      tasks[j].metapath, Columns, answer)

Finished(j, r) ==
    [tasks EXCEPT ![j].st = IF r.raised = "none" THEN "done" ELSE "failed",
                  ![j].raised = r.raised,
                  ![j].frame = r.frame,
                  ![j].requested = r.requested]

\* a call of get_metapath_data returns or raises in its thread; the threads
\* of a Parallel call that has raised are not stopped and run to their end
WorkerFinish(j, answer) ==
    /\ pc \in {"parallel", "crashed"}
    /\ j \in 1..Len(tasks)
    /\ tasks[j].st = "running"
    /\ tasks' = Finished(j, Outcome(j, answer))
    /\ completion_order' = Append(completion_order, j)
    /\ UNCHANGED <<table_bioprocesses, table_genes, table_metapaths, data,
                   generator, chunk_size, enum_next, chunk, cpc, emitted, pc,
                   error, sample_columns, schema, table, results, count, appends,
                   dispatched, num_rows>>

\* the service never answers the request of call j: requests.get(url) is
\* called without a timeout and blocks its thread for good
WorkerHang(j) ==
    /\ pc \in {"parallel", "crashed"}
    /\ j \in 1..Len(tasks)
    /\ tasks[j].st = "running"
    /\ tasks' = [tasks EXCEPT ![j].st = "hung", ![j].requested = TRUE]
    /\ UNCHANGED <<table_bioprocesses, table_genes, table_metapaths, data,
                   generator, chunk_size, enum_next, chunk, cpc, emitted, pc,
                   error, sample_columns, schema, table, completion_order,
                   results, count, appends, dispatched, num_rows>>

\* joblib raises the exception of a failed call again in the caller, which
\* has no handler: the run ends there
ParallelRaise ==
    /\ pc = "parallel"
    /\ \E j \in 1..Len(tasks) :
           /\ tasks[j].st = "failed"
           /\ error' = tasks[j].raised
    /\ table' = TableAfterRaise(table, tasks)
    /\ pc' = "crashed"
    /\ UNCHANGED <<table_bioprocesses, table_genes, table_metapaths, data,
                   generator, chunk_size, enum_next, chunk, cpc, emitted,
                   sample_columns, schema, tasks, completion_order, results,
                   count, appends, dispatched, num_rows>>

\* Parallel returning with the first call that has returned
FirstQueryDone(t) == \E j \in 1..Len(t) : t[j].st = "done"

\* Parallel returns when every call has returned
AllQueriesDone(t) == \A j \in 1..Len(t) : t[j].st = "done"

\* the DataFrames in the order the calls finished
ParallelResultsAsCompleted(t, finished) ==
    [f \in 1..Len(finished) |-> t[finished[f]].frame]

\* the list Parallel returns: one DataFrame per call, in the order of the calls
ParallelResults(t, finished) == [j \in 1..Len(t) |-> t[j].frame]

ParallelReturn ==
    /\ pc = "parallel"
    /\ AllQueriesDone(tasks)
    /\ results' = ParallelResults(tasks, completion_order)
    /\ pc' = "add"
    /\ UNCHANGED <<table_bioprocesses, table_genes, table_metapaths, data,
                   generator, chunk_size, enum_next, chunk, cpc, emitted, error,
                   sample_columns, schema, table, tasks, completion_order, count,
                   appends, dispatched, num_rows>>

\* pd.concat(results) of DataFrames with the same columns
PdConcat(frames) ==
    [columns |-> frames[1].columns, rows |-> ConcatFrameRows(frames)]

\* `break` at the end of the loop body: the loop is left after the first chunk
AfterLoopBody == "report"

\* table.add(pd.concat(results)); count += 1; break
TableAdd ==
    /\ pc = "add"
    /\ LET df == PdConcat(results)
       IN  IF df.columns = schema
           THEN /\ table' = table \o df.rows
                /\ appends' = Append(appends, Len(df.rows))
                /\ count' = count + 1
                /\ pc' = AfterLoopBody
                /\ UNCHANGED error
           ELSE /\ error' = "ValueError"
                /\ pc' = "crashed"
                /\ UNCHANGED <<table, appends, count>>
    /\ UNCHANGED <<table_bioprocesses, table_genes, table_metapaths, data,
                   generator, chunk_size, enum_next, chunk, cpc, emitted,
                   sample_columns, schema, tasks, completion_order, results,
                   dispatched, num_rows>>

\* num_rows = table.count_rows()
Report ==
    /\ pc = "report"
    /\ num_rows' = Len(table)
    /\ pc' = "done"
    /\ UNCHANGED <<table_bioprocesses, table_genes, table_metapaths, data,
                   generator, chunk_size, enum_next, chunk, cpc, emitted, error,
                   sample_columns, schema, table, tasks, completion_order,
                   results, count, appends, dispatched>>

\* The for loop asks the chunker once: after the first chunk it breaks, so
\* the chunker is never resumed.
Next ==
    \/ \E answer \in Answers : SampleQuery(answer)
    \/ CreateTable
    \/ Generate
    \/ ChunkerAppend
    \/ ChunkerTest
    \/ ChunkerExhaust
    \/ Dispatch
    \/ \E j \in 1..Len(tasks) : WorkerStart(j)
    \/ \E j \in 1..Len(tasks), answer \in Answers : WorkerFinish(j, answer)
    \/ ParallelReturn
    \/ ParallelRaise
    \/ TableAdd
    \/ Report

Spec == Init /\ [][Next]_vars

\* The notebook against a service that may leave a request unanswered.
NextHang ==
    \/ Next
    \/ \E j \in 1..Len(tasks) : WorkerHang(j)

SpecHang == Init /\ [][NextHang]_vars

----------------------------------------------------------------------------
(* Claims about the combination generator (SpecComb)                      *)

\* C1: the generator yields exactly m*n*k triples, the triple at flattened
\* index a*n*k + b*k + c (from 0) is (sources[a], targets[b], metapaths[c]),
\* and with an empty collection it yields nothing and raises nothing.
C1_ProductIndexed ==
    pc = "combos_listed" =>
        LET m == Len(table_bioprocesses)
            n == Len(table_genes)
            k == Len(table_metapaths)
        IN  /\ error = "none"
            /\ Len(data) = m * n * k
            /\ \A a \in 0..(m - 1), b \in 0..(n - 1), c \in 0..(k - 1) :
                   data[a * n * k + b * k + c + 1] =
                       <<table_bioprocesses[a + 1], table_genes[b + 1],
                         table_metapaths[c + 1]>>
            /\ (m = 0 \/ n = 0 \/ k = 0) => data = <<>>

\* C1 witness: two distinct genes and two distinct metapaths were combined
\* with two bioprocesses.
C1_Witness ==
    /\ pc = "combos_listed"
    /\ Len(table_bioprocesses) = 2
    /\ Len(table_genes) = 2
    /\ Len(table_metapaths) = 2
    /\ table_genes[1] # table_genes[2]
    /\ table_metapaths[1] # table_metapaths[2]
    /\ Len(data) = 8

----------------------------------------------------------------------------
(* Claims about the chunker (SpecChunk)                                   *)

CeilDiv(L, s) == (L + s - 1) \div s

RECURSIVE ConcatRows(_)
ConcatRows(tables) ==
    IF tables = <<>> THEN <<>>
    ELSE Rows(Head(tables)) \o ConcatRows(Tail(tables))

\* what a batch holds for an input element: "" for None, the decimal text
\* for an int, the string itself for a string
AsText(x) ==
    IF x.kind = "none" THEN [kind |-> "str", s |-> "", n |-> 0]
    ELSE IF x.kind = "int" THEN [kind |-> "str", s |-> Digits[x.n + 1], n |-> 0]
    ELSE x

AllStrings(seq) ==
    \A k \in 1..Len(seq) : \A c \in 1..3 : seq[k][c].kind = "str"

\* C2: for chunk_size s >= 1 and an input of length L the chunker ends
\* without error after ceil(L/s) batches (none for L = 0); every batch but
\* the last has s rows and the last has L - s*floor((L-1)/s), in 1..s.
C2_BatchCounts ==
    (pc \in {"list", "listed", "crashed"} /\ chunk_size >= 1) =>
        /\ pc # "crashed"
        /\ pc = "listed" =>
            LET L == Len(data)
                s == chunk_size
                nb == Len(emitted)
            IN  /\ nb = CeilDiv(L, s)
                /\ \A b \in 1..(nb - 1) : NumRows(emitted[b]) = s
                /\ nb > 0 =>
                    /\ NumRows(emitted[nb]) = L - s * ((L - 1) \div s)
                    /\ NumRows(emitted[nb]) \in 1..s

\* C2 witness: five triples in chunks of two ended as batches of 2, 2 and 1.
C2_Witness ==
    /\ pc = "listed"
    /\ chunk_size = 2
    /\ Len(data) = 5
    /\ Len(emitted) = 3
    /\ NumRows(emitted[3]) = 1

\* C3 as stated: the rows of all batches, concatenated in emission order,
\* are the input sequence itself, values unchanged.
C3_ConcatIsInput ==
    (pc = "listed" /\ chunk_size >= 1) => ConcatRows(emitted) = data

\* C3 amended: the concatenated rows are the input sequence with every
\* element turned into a string (None into "", any other x into str(x)),
\* position by position; for an input of strings they are the input itself.
C3_ConcatIsInputAsText ==
    (pc = "listed" /\ chunk_size >= 1) =>
        /\ Len(ConcatRows(emitted)) = Len(data)
        /\ \A k \in 1..Len(data) :
               ConcatRows(emitted)[k] =
                   <<AsText(data[k][1]), AsText(data[k][2]), AsText(data[k][3])>>
        /\ AllStrings(data) => ConcatRows(emitted) = data

\* C3 witness: an input with an int gene id and a None was split over at
\* least two batches.
C3_Witness ==
    /\ pc = "listed"
    /\ chunk_size >= 1
    /\ Len(emitted) >= 2
    /\ \E k \in 1..Len(data) : data[k][2].kind = "int"
    /\ \E k \in 1..Len(data) : data[k][2].kind = "none"

\* C4: with chunk_size <= 0 the chunker fails with InvalidArgument before
\* it takes any triple and before it yields any batch, for every input.
C4_NonPositiveRejected ==
    (pc \in {"list", "listed", "crashed"} /\ chunk_size <= 0) =>
        /\ enum_next = 0
        /\ emitted = <<>>
        /\ pc # "list" => error = "InvalidArgument"

----------------------------------------------------------------------------
(* Claims about the notebook (Spec)                                       *)

\* the number of rows the calls before call j returned
RECURSIVE RowsBefore(_)
RowsBefore(j) ==
    IF j <= 1 THEN 0 ELSE RowsBefore(j - 1) + Len(tasks[j - 1].frame.rows)

RECURSIVE SumSeq(_)
SumSeq(s) == IF s = <<>> THEN 0 ELSE Head(s) + SumSeq(Tail(s))

ParallelReturned == pc \in {"add", "report", "done"}

TableCreated ==
    \/ pc \in {"generate", "for_loop", "for_body", "parallel", "add", "report",
               "done"}
    \/ pc = "crashed" /\ cpc # "unborn"

\* C5: whatever the order in which the concurrent queries of a batch finish,
\* the aggregated result handed to table.add lists the rows of the triples
\* in the order of the triples of the batch: the rows of triple j, as its
\* query returned them, come before the rows of triple j+1.
C5_ResultsInBatchOrder ==
    ParallelReturned =>
        LET agg == PdConcat(results).rows
        IN  /\ Len(agg) = RowsBefore(Len(tasks) + 1)
            /\ \A j \in 1..Len(tasks) :
                   \A p \in 1..Len(tasks[j].frame.rows) :
                       agg[RowsBefore(j) + p] = tasks[j].frame.rows[p]

\* C5 witness: Parallel returned a batch whose last query finished first.
C5_Witness ==
    /\ pc = "add"
    /\ Len(tasks) >= 2
    /\ completion_order[1] = Len(tasks)
    /\ Len(PdConcat(results).rows) > Len(tasks)

\* C6: at most n_jobs queries are in flight at any time, also for a batch of
\* more triples than n_jobs, whose surplus waits for a free thread.
C6_InFlightBounded == Cardinality(InFlight) <= n_jobs

\* C6 witness: n_jobs queries in flight while a further triple of the batch
\* is still queued.
C6_Witness ==
    /\ pc = "parallel"
    /\ Cardinality(InFlight) = n_jobs
    /\ \E j \in 1..Len(tasks) : tasks[j].st = "queued"

\* C7: a batch is added to the table only when every query of the batch has
\* completed, so never while a query is in flight, and a query is started
\* only for a batch whose predecessors have all been added.
C7_BatchesStrictlySequential ==
    [][/\ appends' # appends =>
            /\ Len(tasks) > 0
            /\ \A j \in 1..Len(tasks) : tasks[j].st \in {"done", "failed"}
            /\ InFlight = {}
       /\ \A j \in 1..Len(tasks') :
            (/\ tasks'[j].st = "running"
             /\ (j > Len(tasks) \/ tasks[j].st # "running"))
                => Len(appends) = dispatched' - 1]_vars

\* C7 witness: a batch of several triples was added after all its queries
\* had returned, the first of them not first.
C7_Witness ==
    /\ pc = "report"
    /\ Len(appends) = 1
    /\ Len(tasks) >= 2
    /\ completion_order[1] # 1
    /\ InFlight = {}

\* C8: the table holds all rows of a batch's aggregated result or none of
\* them; when a query of the batch has failed nothing of the batch is added
\* and the row count stays what it was.  (The loop is left after its first
\* batch, so the table holds at most that batch.)
C8_AppendAllOrNothing ==
    TableCreated =>
        LET whole == ConcatFrameRows([j \in 1..Len(tasks) |-> tasks[j].frame])
        IN  /\ \/ table = <<>> /\ appends = <<>>
               \/ /\ table = whole
                  /\ appends = <<Len(whole)>>
                  /\ \A j \in 1..Len(tasks) : tasks[j].st = "done"
            /\ (\E j \in 1..Len(tasks) : tasks[j].st = "failed") => table = <<>>

\* C8 witness: the run ended on a failed query after another query of the
\* batch had returned rows, and the table is empty.
C8_Witness ==
    /\ pc = "crashed"
    /\ \E j \in 1..Len(tasks) : tasks[j].st = "failed"
    /\ \E j \in 1..Len(tasks) : tasks[j].st = "done" /\ Len(tasks[j].frame.rows) > 0
    /\ table = <<>>

\* C9: a run that ends without error has fetched and added every batch the
\* chunker produces for the input: ceil(L/chunk_size) batches, the whole
\* input consumed.
C9_AllBatchesAdded ==
    (pc = "done" /\ error = "none") =>
        /\ Len(appends) = CeilDiv(Len(data), chunk_size)
        /\ generator = <<>>

NoMatchStep(j) ==
    \E answer \in Answers : ~Resolves(answer) /\ WorkerFinish(j, answer)

\* what C11 says of such a step, with the name of the exception left open:
\* the query of triple j fails with that exception without a request having
\* been sent, and the step touches the query of no other triple
NoMatchFailsWith(j, exception) ==
    /\ tasks'[j].st = "failed"
    /\ tasks'[j].raised = exception
    /\ ~tasks'[j].requested
    /\ \A e \in 1..Len(tasks) : e # j => tasks'[e] = tasks[e]

RunEnded == pc \in {"done", "crashed"}

\* C12: every fetch completes, with a result or an error, within a bounded
\* time even when the service never answers, so the run is never stalled:
\* as long as it has not finished or aborted it can take a further step.
C12_RunNeverStalls == RunEnded \/ ENABLED NextHang

\* C13: a failing triple is recorded and skipped: when the run has ended and
\* a query of the batch had failed, the run ended normally, every other
\* triple of the batch was fetched, and the batch was added with the rows of
\* the triples that did not fail, in the order of the triples.
C13_FailedTripleSkipped ==
    (RunEnded /\ \E j \in 1..Len(tasks) : tasks[j].st = "failed") =>
        /\ pc = "done"
        /\ \A j \in 1..Len(tasks) : tasks[j].st \in {"done", "failed"}
        /\ table = ConcatFrameRows([j \in 1..Len(tasks) |-> tasks[j].frame])
        /\ Len(appends) = 1

\* C15: every row a query of the batch returned, and every row of the
\* aggregated result handed to table.add, carries the source_id and the
\* target_id of its own triple as the batch gave them to the call (the
\* caller's identifiers, strings, not the node ids of the lookup), whatever
\* the order in which the queries ran and finished.
C15_RowsCarryCallerIds ==
    LET batch == emitted[Len(emitted)]
        Tagged(row, j) ==
            /\ row.source_id = batch.source_id[j]
            /\ row.target_id = batch.target_id[j]
    IN  /\ \A j \in 1..Len(tasks) :
               \A p \in 1..Len(tasks[j].frame.rows) :
                   Tagged(tasks[j].frame.rows[p], j)
        /\ ParallelReturned =>
               LET agg == PdConcat(results).rows
               IN  /\ Len(agg) = RowsBefore(Len(tasks) + 1)
                   /\ \A j \in 1..Len(tasks) :
                          \A p \in 1..Len(tasks[j].frame.rows) :
                              Tagged(agg[RowsBefore(j) + p], j)

\* C15 witness: Parallel returned the rows of two triples that differ in
\* source_id and in target_id, the first query of the batch not the first
\* to finish.
C15_Witness ==
    /\ pc = "add"
    /\ completion_order[1] # 1
    /\ \E j, e \in 1..Len(tasks) :
           /\ tasks[j].source_id # tasks[e].source_id
           /\ tasks[j].target_id # tasks[e].target_id
           /\ Len(tasks[j].frame.rows) > 0
           /\ Len(tasks[e].frame.rows) > 0

----------------------------------------------------------------------------
(* A further claim about the chunker (SpecChunk)                          *)

\* C16: for every chunk_size s >= 1 the buffer never holds more than s
\* triples; when the element of index i has been appended it holds
\* (i mod s) + 1 triples, and the emission condition (i + 1) % s == 0 is
\* true exactly when it holds s; when the chunker goes on after an emission
\* (chunk = [] is its next statement) the buffer is empty, so that before
\* each element is taken it holds the elements taken since the last
\* emission.
C16_BufferBounded ==
    chunk_size >= 1 =>
        /\ Len(chunk) <= chunk_size
        /\ cpc = "test" =>
               LET i == enum_next - 1
               IN  /\ Len(chunk) = (i % chunk_size) + 1
                   /\ ((i + 1) % chunk_size = 0) <=> (Len(chunk) = chunk_size)
        /\ cpc = "for" =>
               /\ Len(chunk) = enum_next % chunk_size
               /\ (enum_next % chunk_size = 0) => chunk = <<>>

\* C16 witness: the chunker went on after its second full chunk of two or
\* more triples, with an empty buffer.
C16_Witness ==
    /\ chunk_size >= 2
    /\ cpc = "for"
    /\ enum_next = 2 * chunk_size
    /\ Len(emitted) = 2
    /\ chunk = <<>>

====
